---- MODULE Spec2Model ----
(***************************************************************************)
(* The prediction-market engine of TapVote                                 *)
(* (backend/src/services/predictionMarket.ts) over its Prisma store        *)
(* (backend/prisma/schema.prisma).                                         *)
(*                                                                         *)
(* The store is the tables the engine reads and writes: polls, poll        *)
(* options, predictions and the users' reputation.  Every handler is an    *)
(* async function: the code between two awaits runs without interruption   *)
(* (one JavaScript thread), every awaited Prisma call is one atomic        *)
(* statement of the database, and other handlers may run between two       *)
(* awaits.  A handler invocation is a process whose pc names the await it  *)
(* is suspended at.                                                        *)
(*                                                                         *)
(* Numbers.  confidence is a float in [0,1]; it is kept as an integer      *)
(* numerator over ConfDen.  HOUSE_EDGE = 0.05 is kept as 5 over 100.  The  *)
(* products and quotients of the code are computed exactly over the        *)
(* rationals, and Math.floor is the floor of the exact quotient.           *)
(***************************************************************************)
EXTENDS Integers, Sequences, FiniteSets, TLC

VARIABLES
    poll,        \* table polls: pollId -> row, for the polls that exist
    optionPoll,  \* table poll_options: optionId -> pollId
    preds,       \* table predictions: a set of rows
    votes,       \* table votes: a set of rows
    reputation,  \* table users, column reputation: userId -> Int
    now,         \* the wall clock read by new Date()
    pc,          \* per invocation: the await it is suspended at
    args,        \* per invocation: the call's arguments
    local,       \* per invocation: the handler's local variables
    result       \* per invocation: how the call ended

vars == <<poll, optionPoll, preds, votes, reputation, now, pc, args, local, result>>
db == <<poll, optionPoll, preds, votes, reputation>>

(***************************************************************************)
(* Bounds of the model                                                     *)
(***************************************************************************)
NProcs == 3      \* handler invocations in one behaviour of the concurrent system
MaxTime == 2     \* the clock runs from 1 to MaxTime
ConfDen == 10    \* confidence is one of 0/ConfDen .. ConfDen/ConfDen
MaxVotes == 3    \* no vote request starts once the table holds MaxVotes votes

Procs == 1..NProcs
Users == {"u1", "u2"}

(***************************************************************************)
(* Program constants                                                       *)
(***************************************************************************)
HOUSE_EDGE_PCT == 5
MIN_PREDICTION == 1
MAX_PREDICTION == 1000
DefaultReputation == 0

Null == <<>>
Some(v) == <<v>>
Val(n) == n[1]

RECURSIVE SumOver(_, _)
\* array.reduce((sum, x) => sum + f(x), 0), for f given as a function on S
SumOver(f, S) ==
    IF S = {} THEN 0
    ELSE LET x == CHOOSE y \in S : TRUE
         IN  f[x] + SumOver(f, S \ {x})

(***************************************************************************)
(* Pure computations of the engine                                         *)
(***************************************************************************)
Points(S) == SumOver([x \in S |-> x.points], S)

\* a variant that keeps no house edge
FinalPayout_NoHouseEdge(points, confidence, winningPool, totalPool) ==
    (points * totalPool * (10 * ConfDen + confidence)) \div (winningPool * 10 * ConfDen)

\* a variant whose confidence bonus is the confidence itself
FinalPayout_FullBonus(points, confidence, winningPool, totalPool) ==
    (points * totalPool * (100 - HOUSE_EDGE_PCT) * (ConfDen + confidence))
        \div (winningPool * 100 * ConfDen)

\* resolvePoll, lines 267-272: share, basePayout, confidenceBonus, finalPayout
FinalPayout(points, confidence, winningPool, totalPool) ==
    (points * totalPool * (100 - HOUSE_EDGE_PCT) * (10 * ConfDen + confidence))
        \div (winningPool * 100 * 10 * ConfDen)

\* updateUserReputation, line 565: Math.floor(pointChange * 0.1 * (1 + confidence)),
\* pointChange being the rational num/den
ReputationChange(num, den, confidence) ==
    (num * (ConfDen + confidence)) \div (den * 10 * ConfDen)

\* @@unique([userId, pollId]) of model Prediction: may a row for (userId, pollId)
\* be inserted into rows
UniqueUserPoll(rows, userId, pollId) ==
    ~ \E r \in rows : r.userId = userId /\ r.pollId = pollId

\* the relation option -> PollOption of model Prediction (a foreign key)
OptionExists(optionId) == optionId \in DOMAIN optionPoll

\* a variant without the guard
AlreadyResolved_Never(row) == FALSE

\* line 239: if (poll.resolvedAt)
AlreadyResolved(row) == row.resolvedAt # Null

\* a variant that filters nothing
WinningPredictions_All(predictions, winningOptionId) == predictions

\* line 256: poll.predictions.filter(pred => pred.optionId === winningOptionId)
WinningPredictions(predictions, winningOptionId) ==
    {r \in predictions : r.optionId = winningOptionId}

\* a variant that leaves the option as it was
UpdateData_KeepsOption(r, a) ==
    [r EXCEPT !.confidence = a.confidence, !.points = a.points]

\* lines 84-90: the data of prisma.prediction.update (createdAt is not modelled)
UpdateData(r, a) ==
    [r EXCEPT !.optionId = a.optionId, !.confidence = a.confidence, !.points = a.points]

\* lines 95-102: the data of prisma.prediction.create, with the schema's defaults
CreateData(id, a) ==
    [id |-> id, userId |-> a.userId, pollId |-> a.pollId, optionId |-> a.optionId,
     confidence |-> a.confidence, points |-> a.points, payout |-> Null,
     isResolved |-> FALSE, resolvedAt |-> Null]

\* @id @default(uuid()): an id no row has
FreshId(rows) == Cardinality(rows) + 1

(***************************************************************************)
(* JavaScript numbers                                                      *)
(*                                                                         *)
(* A number of getMarketOdds is a pair <<n, d>>: the rational n/d in       *)
(* lowest terms when d > 0, and the special values of IEEE 754 when d = 0: *)
(* <<1, 0>> is Infinity, <<-1, 0>> is -Infinity and <<0, 0>> is NaN.       *)
(***************************************************************************)
RECURSIVE GCD(_, _)
GCD(a, b) == IF b = 0 THEN a ELSE GCD(b, a % b)

Abs(x) == IF x < 0 THEN -x ELSE x
Sign(x) == IF x < 0 THEN -1 ELSE IF x > 0 THEN 1 ELSE 0

NaN == <<0, 0>>
Infinity == <<1, 0>>
Zero == <<0, 1>>
One == <<1, 1>>

\* the number n/d, d >= 0; x/0 is Infinity, -Infinity or (0/0) NaN
Frac(n, d) ==
    IF d = 0 THEN <<Sign(n), 0>>
    ELSE LET g == GCD(Abs(n), d) IN <<n \div g, d \div g>>

IsFinite(x) == x[2] # 0

RNeg(x) == <<-x[1], x[2]>>

\* 1 / x
RInv(x) ==
    IF x[1] = 0 THEN (IF x[2] = 0 THEN NaN ELSE Infinity)
    ELSE IF x[1] < 0 THEN <<-x[2], -x[1]>>
    ELSE <<x[2], x[1]>>

\* x * y; 0 * Infinity is NaN
RMul(x, y) ==
    IF x[2] = 0 \/ y[2] = 0 THEN <<Sign(x[1] * y[1]), 0>>
    ELSE LET g1 == GCD(Abs(x[1]), y[2])
             g2 == GCD(Abs(y[1]), x[2])
         IN  <<(x[1] \div g1) * (y[1] \div g2), (x[2] \div g2) * (y[2] \div g1)>>

\* x / y; 0 / 0 is NaN, a positive number / 0 is Infinity
RDiv(x, y) == RMul(x, RInv(y))

\* x + y; Infinity + -Infinity is NaN
RAdd(x, y) ==
    IF x[2] = 0 /\ y[2] = 0 THEN (IF x = y THEN x ELSE NaN)
    ELSE IF x[2] = 0 THEN x
    ELSE IF y[2] = 0 THEN y
    ELSE LET g == GCD(x[2], y[2])
         IN  Frac(x[1] * (y[2] \div g) + y[1] * (x[2] \div g), (x[2] \div g) * y[2])

\* x < y; false when either is NaN
RLess(x, y) ==
    /\ x # NaN /\ y # NaN
    /\ x # y
    /\ RAdd(y, RNeg(x))[1] > 0

RECURSIVE RSum(_, _)
\* array.reduce((sum, x) => sum + f(x), 0) over numbers
RSum(f, S) ==
    IF S = {} THEN Zero
    ELSE LET x == CHOOSE y \in S : TRUE
         IN  RAdd(f[x], RSum(f, S \ {x}))

(***************************************************************************)
(* Handler bookkeeping                                                     *)
(***************************************************************************)
NoArgs == [op |-> "none"]
NoLocal == [op |-> "none"]

\* the engine was called by the route POST /api/predictions
ByRoute(a) == "caller" \in DOMAIN a

\* routes/predictions.ts, lines 76-90: the catch block of the route passes on the
\* messages with 'not active', 'expired' or 'between' and answers 'Failed to
\* create prediction' to every other error; any other caller gets what was thrown
Answer(a, res) ==
    IF ByRoute(a) /\ res \notin {"Poll is not active", "Poll has expired",
                                  "Points must be between",
                                  "Confidence must be between 0 and 1"}
    THEN "Failed to create prediction"
    ELSE res

\* the handler returns or throws: its frame is gone, the caller keeps the outcome
Return(self, res) ==
    /\ pc' = [pc EXCEPT ![self] = "done"]
    /\ result' = [result EXCEPT ![self] = Answer(args[self], res)]
    /\ local' = [local EXCEPT ![self] = NoLocal]
    /\ args' = [args EXCEPT ![self] = [op |-> args[self].op, pollId |-> args[self].pollId]]

Goto(self, label) ==
    /\ pc' = [pc EXCEPT ![self] = label]
    /\ UNCHANGED <<result, args>>

\* invocations are anonymous: they are numbered in the order they start
MayStart(self) ==
    /\ pc[self] = "idle"
    /\ \A q \in DOMAIN pc : q < self => pc[q] # "idle"

(***************************************************************************)
(* createPrediction                                                        *)
(***************************************************************************)
\* line 47
InvalidConfidence(confidence) == confidence < 0 \/ confidence > ConfDen

\* a variant with no upper limit
InvalidPoints_NoUpper(points) == points < MIN_PREDICTION

\* line 51
InvalidPoints(points) == points < MIN_PREDICTION \/ points > MAX_PREDICTION

\* lines 43-56: the engine is entered with the payload a; the validation, up to the
\* first await.  A call that fails the validation keeps its payload in args.
Validate(self, a) ==
    IF InvalidConfidence(a.confidence)
    THEN /\ pc' = [pc EXCEPT ![self] = "done"]
         /\ result' = [result EXCEPT ![self] = "Confidence must be between 0 and 1"]
         /\ args' = [args EXCEPT ![self] = a]
    ELSE IF InvalidPoints(a.points)
    THEN /\ pc' = [pc EXCEPT ![self] = "done"]
         /\ result' = [result EXCEPT ![self] = "Points must be between"]
         /\ args' = [args EXCEPT ![self] = a]
    ELSE /\ pc' = [pc EXCEPT ![self] = "c_findPoll"]
         /\ args' = [args EXCEPT ![self] = a]
         /\ UNCHANGED result

\* websocket/handlers.ts, lines 207-217, and any other caller that hands its
\* payload to the engine as it came
createPrediction(self, userId, pollId, optionId, confidence, points) ==
    /\ MayStart(self)
    /\ Validate(self, [op |-> "createPrediction", userId |-> userId, pollId |-> pollId,
                       optionId |-> optionId, confidence |-> confidence,
                       points |-> points])
    /\ UNCHANGED <<db, now, local>>

\* routes/predictions.ts, lines 21-45: POST /api/predictions, the required fields
\* and the confidence range (!points holds of 0), up to prisma.user.findUnique
postPredictions(self, userId, pollId, optionId, confidence, points) ==
    /\ MayStart(self)
    /\ IF points = 0
       THEN /\ pc' = [pc EXCEPT ![self] = "done"]
            /\ result' = [result EXCEPT ![self] = "Missing required fields"]
            /\ args' = [args EXCEPT ![self] = [op |-> "postPredictions", pollId |-> pollId]]
       ELSE IF confidence < 0 \/ confidence > ConfDen
       THEN /\ pc' = [pc EXCEPT ![self] = "done"]
            /\ result' = [result EXCEPT ![self] = "Confidence must be between 0 and 1"]
            /\ args' = [args EXCEPT ![self] = [op |-> "postPredictions", pollId |-> pollId]]
       ELSE /\ pc' = [pc EXCEPT ![self] = "p_findUser"]
            /\ args' = [args EXCEPT ![self] =
                   [op |-> "postPredictions", userId |-> userId, pollId |-> pollId,
                    optionId |-> optionId, confidence |-> confidence, points |-> points]]
            /\ UNCHANGED result
    /\ UNCHANGED <<db, now, local>>

\* routes/predictions.ts, lines 45-63: prisma.user.findUnique, the balance check,
\* then the call of the engine
postPredictions_findUser(self) ==
    /\ pc[self] = "p_findUser"
    /\ LET a == args[self] IN
       IF a.userId \notin DOMAIN reputation \/ reputation[a.userId] < a.points
       THEN Return(self, "Insufficient points for this prediction")
       ELSE Validate(self, [op |-> "createPrediction", caller |-> "postPredictions",
                            userId |-> a.userId, pollId |-> a.pollId,
                            optionId |-> a.optionId, confidence |-> a.confidence,
                            points |-> a.points])
    /\ UNCHANGED <<db, now, local>>

\* routes/predictions.ts, line 66: analyticsService.trackPrediction; the module
\* declares no analyticsService (its import and its construction are commented
\* out, lines 3 and 12), so the line throws a ReferenceError into the catch block
postPredictions_track(self) ==
    /\ pc[self] = "p_track"
    /\ Return(self, "ReferenceError: analyticsService is not defined")
    /\ UNCHANGED <<db, now>>

\* a variant without the check
PollExpired_Never(row, at) == FALSE

\* line 65: poll.expiresAt && new Date() > poll.expiresAt
PollExpired(row, at) == row.expiresAt # Null /\ at > Val(row.expiresAt)

\* lines 56-67: prisma.poll.findUnique, then the isActive and expiresAt checks
createPrediction_findPoll(self) ==
    /\ pc[self] = "c_findPoll"
    /\ LET a == args[self] IN
       IF a.pollId \notin DOMAIN poll \/ ~ poll[a.pollId].isActive
       THEN Return(self, "Poll is not active")
       ELSE IF PollExpired(poll[a.pollId], now)
       THEN Return(self, "Poll has expired")
       ELSE Goto(self, "c_findExisting") /\ UNCHANGED local
    /\ UNCHANGED <<db, now>>

\* lines 70-77: prisma.prediction.findUnique({userId_pollId})
createPrediction_findExisting(self) ==
    /\ pc[self] = "c_findExisting"
    /\ LET a == args[self]
           found == {r \in preds : r.userId = a.userId /\ r.pollId = a.pollId}
       IN  IF found = {}
           THEN local' = [local EXCEPT ![self] = [op |-> "createPrediction", existingPrediction |-> Null]]
           ELSE \E r \in found :
                   local' = [local EXCEPT ![self] =
                       [op |-> "createPrediction", existingPrediction |-> Some(r.id)]]
    /\ Goto(self, "c_write")
    /\ UNCHANGED <<db, now>>

\* lines 80-104: prisma.prediction.update of the row found, or prisma.prediction.create
createPrediction_write(self) ==
    /\ pc[self] = "c_write"
    /\ LET a == args[self]
           e == local[self].existingPrediction
       IN  IF ~ OptionExists(a.optionId)
           THEN Return(self, "Foreign key constraint failed") /\ UNCHANGED preds
           ELSE IF e # Null
           THEN /\ preds' = {IF r.id = Val(e) THEN UpdateData(r, a) ELSE r : r \in preds}
                /\ Goto(self, "c_post") /\ UNCHANGED local
           ELSE IF ~ UniqueUserPoll(preds, a.userId, a.pollId)
           THEN Return(self, "Unique constraint failed") /\ UNCHANGED preds
           ELSE /\ preds' = preds \cup {CreateData(FreshId(preds), a)}
                /\ Goto(self, "c_post") /\ UNCHANGED local
    /\ UNCHANGED <<poll, optionPoll, votes, reputation, now>>

\* lines 107-113: updateMarketOdds, updatePollAnalytics, checkPredictionAchievements
\* (they write tables the model does not hold), then return prediction
createPrediction_post(self) ==
    /\ pc[self] = "c_post"
    /\ IF ByRoute(args[self])
       THEN Goto(self, "p_track") /\ UNCHANGED local
       ELSE Return(self, "ok")
    /\ UNCHANGED <<db, now>>

(***************************************************************************)
(* resolvePoll                                                             *)
(***************************************************************************)
\* line 225: the call, up to the first await
resolvePoll(self, pollId, winningOptionId, resolutionSource) ==
    /\ MayStart(self)
    /\ pc' = [pc EXCEPT ![self] = "r_find"]
    /\ args' = [args EXCEPT ![self] =
           [op |-> "resolvePoll", pollId |-> pollId, winningOptionId |-> winningOptionId,
            resolutionSource |-> resolutionSource]]
    /\ UNCHANGED <<db, now, local, result>>

\* lines 226-241: prisma.poll.findUnique with its unresolved predictions, the guards
resolvePoll_find(self) ==
    /\ pc[self] = "r_find"
    /\ LET a == args[self] IN
       IF a.pollId \notin DOMAIN poll
       THEN Return(self, "Poll not found")
       ELSE IF AlreadyResolved(poll[a.pollId])
       THEN Return(self, "Poll already resolved")
       ELSE /\ local' = [local EXCEPT ![self] =
                   [op |-> "resolvePoll",
                    predictions |-> {r \in preds : r.pollId = a.pollId /\ ~ r.isResolved},
                    winning |-> {}, losing |-> {}, cur |-> Null,
                    totalPool |-> 0, winningPool |-> 0]]
            /\ Goto(self, "r_updatePoll")
    /\ UNCHANGED <<db, now>>

\* where the loops of lines 266-301 go next, given what is left of them
AfterLoops(winning, losing) ==
    IF winning # {} THEN "r_payWinner"
    ELSE IF losing # {} THEN "r_markLoser"
    ELSE "r_notify"

\* a variant that leaves the poll active
ResolveData_StaysActive(row, a, at) ==
    [row EXCEPT !.resolvedAt = Some(at),
                !.resolutionResult = Some(a.winningOptionId),
                !.resolutionSource = Some(a.resolutionSource)]

\* lines 246-251: the data of prisma.poll.update
ResolveData(row, a, at) ==
    [row EXCEPT !.resolvedAt = Some(at),
                !.resolutionResult = Some(a.winningOptionId),
                !.resolutionSource = Some(a.resolutionSource),
                !.isActive = FALSE]

\* lines 244-263: prisma.poll.update, then totalPool, winningPredictions, winningPool
\* and the return when winningPool === 0
resolvePoll_updatePoll(self) ==
    /\ pc[self] = "r_updatePoll"
    /\ LET a == args[self]
           snapshot == local[self].predictions
           totalPool == Points(snapshot)
           winningPredictions == WinningPredictions(snapshot, a.winningOptionId)
           winningPool == Points(winningPredictions)
       IN  /\ poll' = [poll EXCEPT ![a.pollId] = ResolveData(@, a, now)]
           /\ IF winningPool = 0
              THEN Return(self, "ok")
              ELSE /\ local' = [local EXCEPT ![self] =
                          [@ EXCEPT !.winning = winningPredictions,
                                    !.losing = snapshot \ winningPredictions,
                                    !.totalPool = totalPool,
                                    !.winningPool = winningPool]]
                   /\ Goto(self, AfterLoops(winningPredictions, snapshot \ winningPredictions))
    /\ UNCHANGED <<optionPoll, votes, preds, reputation, now>>

\* prisma.prediction.update({where: {id}, data: {payout, isResolved: true, resolvedAt}})
UpdateResolved(rows, id, payout, at) ==
    {IF r.id = id
     THEN [r EXCEPT !.payout = Some(payout), !.isResolved = TRUE, !.resolvedAt = Some(at)]
     ELSE r : r \in rows}

\* lines 266-281: the next winning prediction, its payout, prisma.prediction.update
resolvePoll_payWinner(self) ==
    /\ pc[self] = "r_payWinner"
    /\ \E prediction \in local[self].winning :
          LET finalPayout == FinalPayout(prediction.points, prediction.confidence,
                                         local[self].winningPool, local[self].totalPool)
          IN  /\ preds' = UpdateResolved(preds, prediction.id, finalPayout, now)
              /\ local' = [local EXCEPT ![self] =
                     [@ EXCEPT !.cur = Some([prediction EXCEPT !.payout = Some(finalPayout)]),
                               !.winning = @ \ {prediction}]]
    /\ Goto(self, "r_repWinner")
    /\ UNCHANGED <<poll, optionPoll, votes, reputation, now>>

\* a variant that writes the value instead of incrementing
updateUserReputation_Overwrite(userId, num, den, confidence) ==
    reputation' = [reputation EXCEPT ![userId] =
                      DefaultReputation + ReputationChange(num, den, confidence)]

\* lines 564-575: prisma.user.update({data: {reputation: {increment}}})
updateUserReputation(userId, num, den, confidence) ==
    reputation' = [reputation EXCEPT ![userId] = @ + ReputationChange(num, den, confidence)]

\* line 284: updateUserReputation(prediction.userId, finalPayout, prediction.confidence)
resolvePoll_repWinner(self) ==
    /\ pc[self] = "r_repWinner"
    /\ LET prediction == Val(local[self].cur) IN
          updateUserReputation(prediction.userId, Val(prediction.payout), 1,
                               prediction.confidence)
    /\ local' = [local EXCEPT ![self] = [@ EXCEPT !.cur = Null]]
    /\ Goto(self, AfterLoops(local[self].winning, local[self].losing))
    /\ UNCHANGED <<poll, optionPoll, votes, preds, now>>

\* lines 288-297: the next losing prediction, prisma.prediction.update with payout 0
resolvePoll_markLoser(self) ==
    /\ pc[self] = "r_markLoser"
    /\ \E prediction \in local[self].losing :
          /\ preds' = UpdateResolved(preds, prediction.id, 0, now)
          /\ local' = [local EXCEPT ![self] =
                 [@ EXCEPT !.cur = Some(prediction), !.losing = @ \ {prediction}]]
    /\ Goto(self, "r_repLoser")
    /\ UNCHANGED <<poll, optionPoll, votes, reputation, now>>

\* line 300: updateUserReputation(prediction.userId, -prediction.points * 0.1, 0)
resolvePoll_repLoser(self) ==
    /\ pc[self] = "r_repLoser"
    /\ LET prediction == Val(local[self].cur) IN
          updateUserReputation(prediction.userId, - prediction.points, 10, 0)
    /\ local' = [local EXCEPT ![self] = [@ EXCEPT !.cur = Null]]
    /\ Goto(self, AfterLoops({}, local[self].losing))
    /\ UNCHANGED <<poll, optionPoll, votes, preds, now>>

\* lines 304-306: createResolutionNotifications (a table the model does not hold)
resolvePoll_notify(self) ==
    /\ pc[self] = "r_notify"
    /\ Return(self, "ok")
    /\ UNCHANGED <<db, now>>

(***************************************************************************)
(* getMarketOdds                                                           *)
(***************************************************************************)
HOUSE_EDGE == Frac(HOUSE_EDGE_PCT, 100)
CONFIDENCE_WEIGHT == Frac(7, 10)
VOLUME_WEIGHT == Frac(3, 10)

\* the relation Poll.options
Options(pollId) == {o \in DOMAIN optionPoll : optionPoll[o] = pollId}

\* lines 125-127: option.predictions with where: {isResolved: false}, rows being
\* the table predictions
OptionPredictions(rows, optionId) ==
    {r \in rows : r.optionId = optionId /\ ~ r.isResolved}

\* lines 369-378
calculateWeightedConfidence(predictions) ==
    IF predictions = {} THEN Zero
    ELSE LET totalWeight == Points(predictions)
         IN  IF totalWeight = 0 THEN Zero
             ELSE Frac(SumOver([x \in predictions |-> x.confidence * x.points], predictions),
                       ConfDen * totalWeight)

\* lines 380-389
calculateMarketProbability(predictions, totalVolume) ==
    IF predictions = {} \/ totalVolume = 0 THEN Zero
    ELSE LET optionVolume == Points(predictions)
             weightedConfidence == calculateWeightedConfidence(predictions)
             volumeShare == Frac(optionVolume, totalVolume)
         IN  RAdd(RMul(volumeShare, VOLUME_WEIGHT), RMul(weightedConfidence, CONFIDENCE_WEIGHT))

\* Number.prototype.toFixed(1) of a finite number, in tenths (halves round up)
ToFixed1(x) == (20 * x[1] + x[2]) \div (2 * x[2])

\* lines 416-426; form "inf:1" is the string with the infinity sign before ":1",
\* "x:1" and "1:x" carry toFixed(1) of x, in tenths
formatOdds(probability) ==
    IF probability = Zero THEN [form |-> "inf:1", tenths |-> 0]
    ELSE IF probability = One THEN [form |-> "1:inf", tenths |-> 0]
    ELSE LET odds == RAdd(RInv(probability), RNeg(One))
         IN  IF odds # NaN /\ ~ RLess(odds, One)
             THEN IF IsFinite(odds) THEN [form |-> "x:1", tenths |-> ToFixed1(odds)]
                                    ELSE [form |-> "Infinity:1", tenths |-> 0]
             ELSE LET inverse == RInv(odds)
                  IN  IF inverse = NaN THEN [form |-> "1:NaN", tenths |-> 0]
                      ELSE IF IsFinite(inverse)
                      THEN [form |-> "1:x", tenths |-> ToFixed1(inverse)]
                      ELSE [form |-> "1:Infinity", tenths |-> 0]

\* line 167: (1 - this.HOUSE_EDGE) / totalProb, with no test of totalProb
NormalizationFactor(totalProb) == RDiv(RAdd(One, RNeg(HOUSE_EDGE)), totalProb)

\* lines 140-172: the entries of marketOdds by optionId, after the normalization,
\* computed from the poll's options and the table predictions as line 120 read
\* them (trend and the option's text are not modelled)
ComputeOdds(options, rows) ==
    LET totalVolume == SumOver([o \in options |-> Points(OptionPredictions(rows, o))], options)
        raw == [o \in options |->
                   calculateMarketProbability(OptionPredictions(rows, o), totalVolume)]
        totalProb == RSum(raw, options)
        normalizationFactor == NormalizationFactor(totalProb)
    IN  [o \in options |->
            LET probability == RMul(raw[o], normalizationFactor)
            IN  [optionId |-> o,
                 probability |-> probability,
                 impliedOdds |-> formatOdds(probability),
                 volume |-> Points(OptionPredictions(rows, o)),
                 confidence |-> calculateWeightedConfidence(OptionPredictions(rows, o))]]

\* what getMarketOdds(pollId) computes in this state
MarketOdds(pollId) == ComputeOdds(Options(pollId), preds)

\* line 174: sort((a, b) => b.probability - a.probability).  The sort is stable
\* and takes a NaN of the comparator for 0, and the options come from the
\* database in no stated order: the outcomes are the orders of the entries in
\* which no entry comes before one of greater probability.
SortedOdds(pollId) ==
    LET odds == MarketOdds(pollId)
        n == Cardinality(DOMAIN odds)
    IN  {[i \in 1..n |-> odds[s[i]]] :
            s \in {t \in [1..n -> DOMAIN odds] :
                      /\ \A i, j \in 1..n : i # j => t[i] # t[j]
                      /\ \A i, j \in 1..n :
                            i < j => ~ RLess(odds[t[i]].probability, odds[t[j]].probability)}}

\* line 119: the call, up to the first await
getMarketOdds(self, pollId) ==
    /\ MayStart(self)
    /\ pc' = [pc EXCEPT ![self] = "o_find"]
    /\ args' = [args EXCEPT ![self] = [op |-> "getMarketOdds", pollId |-> pollId]]
    /\ UNCHANGED <<db, now, local, result>>

\* lines 120-174: prisma.poll.findUnique with the options' unresolved predictions,
\* the odds computed from what it read, return; the list returned is left in
\* local.marketOdds (the reads of calculateTrend change nothing that is modelled)
getMarketOdds_find(self) ==
    /\ pc[self] = "o_find"
    /\ IF args[self].pollId \notin DOMAIN poll
       THEN Return(self, "Poll not found")
       ELSE \E marketOdds \in SortedOdds(args[self].pollId) :
               /\ pc' = [pc EXCEPT ![self] = "done"]
               /\ result' = [result EXCEPT ![self] = "ok"]
               /\ local' = [local EXCEPT ![self] =
                      [op |-> "getMarketOdds", marketOdds |-> marketOdds]]
               /\ UNCHANGED args
    /\ UNCHANGED <<db, now>>

(***************************************************************************)
(* getMarketAnalytics                                                      *)
(***************************************************************************)
RMax(x, y) == IF RLess(x, y) THEN y ELSE x
RMin(x, y) == IF RLess(y, x) THEN y ELSE x

\* lines 428-439; rep is the column reputation of the predictions' users
calculateConsensus(predictions, rep) ==
    IF predictions = {} THEN Zero
    ELSE LET weight == [x \in predictions |-> x.points * (1000 + rep[x.userId])]
             totalWeight == Frac(SumOver(weight, predictions), 1000)
             weighted == Frac(SumOver([x \in predictions |-> x.confidence * weight[x]],
                                      predictions),
                              ConfDen * 1000)
         IN  RDiv(weighted, totalWeight)

\* lines 441-450
calculateMarketEfficiency(predictions) ==
    IF Cardinality(predictions) < 2 THEN One
    ELSE LET n == Cardinality(predictions)
             sum == SumOver([x \in predictions |-> x.confidence], predictions)
             squares == SumOver([x \in predictions |->
                                    (n * x.confidence - sum) * (n * x.confidence - sum)],
                                predictions)
             variance == Frac(squares, n * n * n * ConfDen * ConfDen)
         IN  RMax(Zero, RAdd(One, RNeg(RMul(variance, Frac(4, 1)))))

\* lines 470-476
calculateLiquidityIndex(volume, predictors) ==
    LET volumeScore == RMin(Frac(volume, 10000), One)
        predictorScore == RMin(Frac(predictors, 100), One)
    IN  RMul(RAdd(volumeScore, predictorScore), Frac(1, 2))

\* lines 193-219: the metrics of the predictions read (volatility, which is read
\* from the table vote_snapshots, is not modelled)
MarketAnalytics(predictions, rep) ==
    LET totalVolume == Points(predictions)
        uniquePredictors == Cardinality({x.userId : x \in predictions})
    IN  [totalVolume |-> totalVolume,
         uniquePredictors |-> uniquePredictors,
         averageConfidence |->
             IF predictions # {}
             THEN Frac(SumOver([x \in predictions |-> x.confidence], predictions),
                       ConfDen * Cardinality(predictions))
             ELSE Zero,
         consensusProbability |-> calculateConsensus(predictions, rep),
         marketEfficiency |-> calculateMarketEfficiency(predictions),
         liquidityIndex |-> calculateLiquidityIndex(totalVolume, uniquePredictors)]

\* line 180: the call, up to the first await
getMarketAnalytics(self, pollId) ==
    /\ MayStart(self)
    /\ pc' = [pc EXCEPT ![self] = "a_find"]
    /\ args' = [args EXCEPT ![self] = [op |-> "getMarketAnalytics", pollId |-> pollId]]
    /\ UNCHANGED <<db, now, local, result>>

\* lines 181-219: prisma.prediction.findMany({pollId, isResolved: false}) with the
\* users' reputation, the metrics computed from what it read, return; the record
\* returned is left in local.analytics
getMarketAnalytics_find(self) ==
    /\ pc[self] = "a_find"
    /\ LET predictions == {r \in preds : r.pollId = args[self].pollId /\ ~ r.isResolved}
       IN  local' = [local EXCEPT ![self] =
               [op |-> "getMarketAnalytics",
                analytics |-> MarketAnalytics(predictions, reputation)]]
    /\ pc' = [pc EXCEPT ![self] = "done"]
    /\ result' = [result EXCEPT ![self] = "ok"]
    /\ UNCHANGED <<db, now, args>>

(***************************************************************************)
(* getLeaderboard                                                          *)
(***************************************************************************)
\* lines 316-322: the users with some prediction (timeframe 'all': no startDate)
UsersWithPredictions == {u \in DOMAIN reputation : \E r \in preds : r.userId = u}

\* Math.round(num / den), den > 0: halves round up
Round(num, den) == (2 * num + den) \div (2 * den)

\* lines 343-362: the entry of a user, from the user's resolved predictions
LeaderboardEntry(u) ==
    LET predictions == {r \in preds : r.userId = u /\ r.isResolved}
        totalPayout == SumOver([x \in predictions |->
                                   IF x.payout = Null THEN 0 ELSE Val(x.payout)],
                               predictions)
        totalStake == Points(predictions)
        won == Cardinality({x \in predictions : x.payout # Null /\ Val(x.payout) > 0})
    IN  [userId |-> u,
         reputation |-> reputation[u],
         totalPredictions |-> Cardinality({r \in preds : r.userId = u}),
         totalPayout |-> totalPayout,
         totalStake |-> totalStake,
         netProfit |-> totalPayout - totalStake,
         winRate |-> IF predictions # {}
                     THEN Round(won * 100, Cardinality(predictions)) ELSE 0,
         roiHundredths |-> IF totalStake > 0
                           THEN Round((totalPayout - totalStake) * 100 * 100, totalStake)
                           ELSE 0]

\* line 340: take: limit, on a findMany with no orderBy: which users the database
\* returns when there are more than limit is not stated, any limit of them may be
Taken(users, limit) ==
    IF Cardinality(users) <= limit THEN {users}
    ELSE {t \in SUBSET users : Cardinality(t) = limit}

\* lines 343-363: the lists getLeaderboard may return: the entries of the users
\* taken, sorted by descending netProfit (equal entries in any order)
Leaderboards(limit) ==
    UNION {LET n == Cardinality(t) IN
           {[i \in 1..n |-> LeaderboardEntry(s[i])] :
               s \in {q \in [1..n -> t] :
                         /\ \A i, j \in 1..n : i # j => q[i] # q[j]
                         /\ \A i, j \in 1..n :
                               i < j => LeaderboardEntry(q[i]).netProfit
                                           >= LeaderboardEntry(q[j]).netProfit}}
           : t \in Taken(UsersWithPredictions, limit)}

\* line 312: the call, up to the first await
getLeaderboard(self, timeframe, limit) ==
    /\ MayStart(self)
    /\ pc' = [pc EXCEPT ![self] = "l_find"]
    /\ args' = [args EXCEPT ![self] =
           [op |-> "getLeaderboard", timeframe |-> timeframe, limit |-> limit]]
    /\ UNCHANGED <<db, now, local, result>>

\* lines 315-363: prisma.user.findMany, map, sort, return; the list returned is
\* left in local.leaderboard
getLeaderboard_find(self) ==
    /\ pc[self] = "l_find"
    /\ \E leaderboard \in Leaderboards(args[self].limit) :
          local' = [local EXCEPT ![self] =
              [op |-> "getLeaderboard", leaderboard |-> leaderboard]]
    /\ pc' = [pc EXCEPT ![self] = "done"]
    /\ result' = [result EXCEPT ![self] = "ok"]
    /\ UNCHANGED <<db, now, args>>

(***************************************************************************)
(* Votes: the socket event 'vote' and the route POST /api/polls/:id/vote   *)
(***************************************************************************)
\* the connections that send votes, and what each one carries: ip1 is a signed-in
\* user with a session, ip2 an anonymous visitor with a session, ip3 a socket
\* that has not sent 'authenticate' (or a request without user and session)
Connections == {"ip1", "ip2", "ip3"}

Identity(c) ==
    IF c = "ip1" THEN [userId |-> Some("u1"), sessionId |-> Some("s1")]
    ELSE IF c = "ip2" THEN [userId |-> Null, sessionId |-> Some("s2")]
    ELSE [userId |-> Null, sessionId |-> Null]

\* the where clause {pollId, OR: [...(userId ? [{userId}] : []),
\* ...(sessionId ? [{sessionId}] : [])]}; an empty OR matches no row
ExistingVote(rows, pollId, userId, sessionId) ==
    {r \in rows : /\ r.pollId = pollId
                  /\ \/ userId # Null /\ r.userId = userId
                     \/ sessionId # Null /\ r.sessionId = sessionId}

\* @@unique([pollId, userId]) and @@unique([pollId, sessionId]); NULLs are
\* distinct in a unique index
UniqueVote(rows, pollId, userId, sessionId) ==
    /\ userId # Null => ~ \E r \in rows : r.pollId = pollId /\ r.userId = userId
    /\ sessionId # Null => ~ \E r \in rows : r.pollId = pollId /\ r.sessionId = sessionId

\* the messages of the two handlers
VoteAnswer(route, outcome) ==
    IF route = "socket"
    THEN CASE outcome = "exists" -> "Already voted"
           [] outcome = "threw" -> "Failed to process vote"
           [] OTHER -> outcome
    ELSE CASE outcome = "exists" -> "You have already voted on this poll"
           [] outcome = "threw" -> "Failed to cast vote"
           [] OTHER -> outcome

\* socket.on('vote', {pollId, optionId}) on the connection c
socketVote(self, c, pollId, optionId) ==
    /\ MayStart(self)
    /\ Cardinality(votes) < MaxVotes
    /\ args' = [args EXCEPT ![self] =
                   [op |-> "vote", route |-> "socket", pollId |-> pollId, optionId |-> optionId,
                    userId |-> Identity(c).userId, sessionId |-> Identity(c).sessionId,
                    ipAddress |-> c]]
    /\ pc' = [pc EXCEPT ![self] = "v_findPoll"]
    /\ UNCHANGED <<db, now, local, result>>

\* POST /api/polls/:id/vote {optionId} from the connection c; "" is no optionId
postVote(self, c, pollId, optionId) ==
    /\ MayStart(self)
    /\ Cardinality(votes) < MaxVotes
    /\ args' = [args EXCEPT ![self] =
                   [op |-> "vote", route |-> "rest", pollId |-> pollId, optionId |-> optionId,
                    userId |-> Identity(c).userId, sessionId |-> Identity(c).sessionId,
                    ipAddress |-> c]]
    /\ IF optionId = ""
       THEN /\ pc' = [pc EXCEPT ![self] = "done"]
            /\ result' = [result EXCEPT ![self] = "Option ID is required"]
       ELSE /\ pc' = [pc EXCEPT ![self] = "v_findPoll"]
            /\ UNCHANGED result
    /\ UNCHANGED <<db, now, local>>

\* prisma.poll.findUnique({id, isActive: true}) with its options, then the
\* expiresAt and option checks
vote_findPoll(self) ==
    /\ pc[self] = "v_findPoll"
    /\ LET a == args[self] IN
       IF a.pollId \notin DOMAIN poll \/ ~ poll[a.pollId].isActive
       THEN Return(self, "Poll not found")
       ELSE IF PollExpired(poll[a.pollId], now)
       THEN Return(self, "Poll has expired")
       ELSE IF a.optionId \notin Options(a.pollId)
       THEN Return(self, "Invalid option")
       ELSE Goto(self, "v_findExisting") /\ UNCHANGED local
    /\ UNCHANGED <<db, now>>

\* prisma.vote.findFirst: the check for an existing vote
vote_findExisting(self) ==
    /\ pc[self] = "v_findExisting"
    /\ LET a == args[self] IN
       IF ExistingVote(votes, a.pollId, a.userId, a.sessionId) # {}
       THEN Return(self, VoteAnswer(a.route, "exists"))
       ELSE Goto(self, "v_create") /\ UNCHANGED local
    /\ UNCHANGED <<db, now>>

\* prisma.vote.create; what follows it in either handler reads the votes or
\* writes tables the model does not hold
vote_create(self) ==
    /\ pc[self] = "v_create"
    /\ LET a == args[self] IN
       IF ~ UniqueVote(votes, a.pollId, a.userId, a.sessionId)
       THEN Return(self, VoteAnswer(a.route, "threw")) /\ UNCHANGED votes
       ELSE /\ votes' = votes \cup {[id |-> FreshId(votes), pollId |-> a.pollId,
                                      optionId |-> a.optionId, userId |-> a.userId,
                                      sessionId |-> a.sessionId, ipAddress |-> a.ipAddress]}
            /\ Return(self, "ok")
    /\ UNCHANGED <<poll, optionPoll, preds, reputation, now>>

(***************************************************************************)
(* The clock                                                               *)
(***************************************************************************)
Tick ==
    /\ now < MaxTime
    /\ now' = now + 1
    /\ UNCHANGED <<db, pc, args, local, result>>

(***************************************************************************)
(* The store at the start, and the specifications                          *)
(***************************************************************************)
NewPoll == [isActive |-> TRUE, expiresAt |-> Null, resolvedAt |-> Null,
            resolutionResult |-> Null, resolutionSource |-> Null]

\* one open poll p1 with the options a and b
Init ==
    /\ poll = [p \in {"p1"} |-> NewPoll]
    /\ optionPoll = [o \in {"a", "b"} |-> "p1"]
    /\ votes = {}
    /\ preds = {}
    /\ reputation = [u \in Users |-> DefaultReputation]
    /\ now = 1
    /\ pc = [self \in Procs |-> "idle"]
    /\ args = [self \in Procs |-> NoArgs]
    /\ local = [self \in Procs |-> NoLocal]
    /\ result = [self \in Procs |-> "none"]

\* the steps of a handler that is under way
Step(self) ==
    \/ createPrediction_findPoll(self)
    \/ createPrediction_findExisting(self)
    \/ createPrediction_write(self)
    \/ createPrediction_post(self)
    \/ resolvePoll_find(self)
    \/ resolvePoll_updatePoll(self)
    \/ resolvePoll_payWinner(self)
    \/ resolvePoll_repWinner(self)
    \/ resolvePoll_markLoser(self)
    \/ resolvePoll_repLoser(self)
    \/ resolvePoll_notify(self)

ConcPoints == {1, 2}
ConcConfidence == {ConfDen}
SeqPoints == {1, 50, 100}
SeqConfidence == {0, 9, ConfDen}

\* a request arrives
Call(self, points, confidences) ==
    \/ \E u \in Users, o \in {"a", "b"}, c \in confidences, n \in points :
          createPrediction(self, u, "p1", o, c, n)
    \/ \E w \in {"a", "b"} : resolvePoll(self, "p1", w, "oracle")

\* handlers run concurrently: any handler under way may take its next step
Next ==
    \/ \E self \in Procs : Call(self, ConcPoints, ConcConfidence)
    \/ \E self \in Procs : Step(self)
    \/ Tick

Spec == Init /\ [][Next]_vars

\* the caller has its answer and sends the next request
NextRequest(self) ==
    /\ pc[self] = "done"
    /\ pc' = [pc EXCEPT ![self] = "idle"]
    /\ args' = [args EXCEPT ![self] = NoArgs]
    /\ result' = [result EXCEPT ![self] = "none"]
    /\ local' = [local EXCEPT ![self] = NoLocal]
    /\ UNCHANGED <<db, now>>

InitSeq ==
    /\ poll = [p \in {"p1"} |-> NewPoll]
    /\ optionPoll = [o \in {"a", "b"} |-> "p1"]
    /\ votes = {}
    /\ preds = {}
    /\ reputation = [u \in Users |-> DefaultReputation]
    /\ now = 1
    /\ pc = [self \in {1} |-> "idle"]
    /\ args = [self \in {1} |-> NoArgs]
    /\ local = [self \in {1} |-> NoLocal]
    /\ result = [self \in {1} |-> "none"]

\* handlers run one at a time: a request arrives when the one before it has ended
NextSeq ==
    \/ Call(1, SeqPoints, SeqConfidence)
    \/ getMarketOdds(1, "p1")
    \/ Step(1)
    \/ getMarketOdds_find(1)
    \/ NextRequest(1)
    \/ Tick

SpecSeq == InitSeq /\ [][NextSeq]_vars

\* The requests of every kind, one at a time: the polls p1 (options a and b, with
\* or without an expiry date) and p2 (option c); p9 names no poll and x no option;
\* u1 has the reputation of a new user, u2 has earned some.
InitApi ==
    /\ \E e \in {Null, Some(1)} :
          poll = [p \in {"p1", "p2"} |->
                     IF p = "p1" THEN [NewPoll EXCEPT !.expiresAt = e] ELSE NewPoll]
    /\ optionPoll = [o \in {"a", "b", "c"} |-> IF o = "c" THEN "p2" ELSE "p1"]
    /\ votes = {}
    /\ preds = {}
    /\ reputation = [u \in Users |-> IF u = "u1" THEN DefaultReputation ELSE 60]
    /\ now = 1
    /\ pc = [self \in {1} |-> "idle"]
    /\ args = [self \in {1} |-> NoArgs]
    /\ local = [self \in {1} |-> NoLocal]
    /\ result = [self \in {1} |-> "none"]

\* <<confidence, points>> of the requests: in range, and out of range on either side
ApiPayloads ==
    {<<0, MIN_PREDICTION>>, <<ConfDen, 50>>,
     <<-1, 1>>, <<ConfDen + 1, 1>>, <<ConfDen, MIN_PREDICTION - 1>>,
     <<ConfDen, MAX_PREDICTION + 1>>}

CallApi(self) ==
    \/ \E u \in Users, p \in {"p1", "p9"}, o \in {"a", "c", "x"}, cn \in ApiPayloads :
          createPrediction(self, u, p, o, cn[1], cn[2])
    \/ \E u \in Users, p \in {"p1", "p9"}, o \in {"a", "c", "x"}, cn \in ApiPayloads :
          postPredictions(self, u, p, o, cn[1], cn[2])
    \/ \E p \in {"p1", "p9"}, w \in {"a", "c"}, src \in {"oracle", "admin"} :
          resolvePoll(self, p, w, src)
    \/ \E p \in {"p1", "p9"} : getMarketOdds(self, p)
    \/ \E p \in {"p1", "p9"} : getMarketAnalytics(self, p)
    \/ \E limit \in {1, 2} : getLeaderboard(self, "all", limit)

NextApi ==
    \/ CallApi(1)
    \/ Step(1)
    \/ postPredictions_findUser(1)
    \/ postPredictions_track(1)
    \/ getMarketOdds_find(1)
    \/ getMarketAnalytics_find(1)
    \/ getLeaderboard_find(1)
    \/ NextRequest(1)
    \/ Tick

SpecApi == InitApi /\ [][NextApi]_vars

\* Two polls are resolved concurrently.  The polls p1 (options a and b) and p2
\* (options c and d) each hold a prediction of u1 and one of u2, as earlier
\* submissions left them; invocation 1 resolves p1 and invocation 2 resolves p2.
RepReputation == [u \in Users |-> IF u = "u1" THEN DefaultReputation ELSE 60]

InitRep ==
    /\ poll = [p \in {"p1", "p2"} |-> NewPoll]
    /\ optionPoll = [o \in {"a", "b", "c", "d"} |-> IF o \in {"a", "b"} THEN "p1" ELSE "p2"]
    /\ votes = {}
    /\ \E o1, o3 \in {"a", "b"}, o2, o4 \in {"c", "d"}, n1, n2 \in {50, 100} :
          preds = {CreateData(1, [userId |-> "u1", pollId |-> "p1", optionId |-> o1,
                                  confidence |-> ConfDen, points |-> n1]),
                   CreateData(2, [userId |-> "u1", pollId |-> "p2", optionId |-> o2,
                                  confidence |-> ConfDen, points |-> n2]),
                   CreateData(3, [userId |-> "u2", pollId |-> "p1", optionId |-> o3,
                                  confidence |-> 0, points |-> 100]),
                   CreateData(4, [userId |-> "u2", pollId |-> "p2", optionId |-> o4,
                                  confidence |-> 0, points |-> 100])}
    /\ reputation = RepReputation
    /\ now = 1
    /\ pc = [self \in {1, 2} |-> "idle"]
    /\ args = [self \in {1, 2} |-> NoArgs]
    /\ local = [self \in {1, 2} |-> NoLocal]
    /\ result = [self \in {1, 2} |-> "none"]

\* the steps of a resolvePoll call that is under way
ResolveStep(self) ==
    \/ resolvePoll_find(self)
    \/ resolvePoll_updatePoll(self)
    \/ resolvePoll_payWinner(self)
    \/ resolvePoll_repWinner(self)
    \/ resolvePoll_markLoser(self)
    \/ resolvePoll_repLoser(self)
    \/ resolvePoll_notify(self)

NextRep ==
    \/ \E w \in {"a", "b"} : resolvePoll(1, "p1", w, "oracle")
    \/ \E w \in {"c", "d"} : resolvePoll(2, "p2", w, "oracle")
    \/ \E self \in {1, 2} : ResolveStep(self)
    \/ Tick

SpecRep == InitRep /\ [][NextRep]_vars

\* Votes arrive over the socket and the route; two handlers run concurrently and
\* a caller that has its answer sends the next request.
InitVote ==
    /\ \E e \in {Null, Some(1)} : poll = [p \in {"p1"} |-> [NewPoll EXCEPT !.expiresAt = e]]
    /\ optionPoll = [o \in {"a", "b"} |-> "p1"]
    /\ preds = {}
    /\ votes = {}
    /\ reputation = [u \in Users |-> DefaultReputation]
    /\ now = 1
    /\ pc = [self \in {1, 2} |-> "idle"]
    /\ args = [self \in {1, 2} |-> NoArgs]
    /\ local = [self \in {1, 2} |-> NoLocal]
    /\ result = [self \in {1, 2} |-> "none"]

NextVote ==
    \/ \E self \in {1, 2}, c \in Connections, p \in {"p1", "p9"}, o \in {"a", "b", "x"} :
          socketVote(self, c, p, o)
    \/ \E self \in {1, 2}, c \in Connections, p \in {"p1", "p9"}, o \in {"a", "x", ""} :
          postVote(self, c, p, o)
    \/ \E self \in {1, 2} : vote_findPoll(self)
    \/ \E self \in {1, 2} : vote_findExisting(self)
    \/ \E self \in {1, 2} : vote_create(self)
    \/ \E self \in {1, 2} : NextRequest(self)
    \/ Tick

SpecVote == InitVote /\ [][NextVote]_vars

(***************************************************************************)
(* Properties                                                              *)
(***************************************************************************)
On(p) == {r \in preds : r.pollId = p}
IsResolve(self) == args[self].op = "resolvePoll"
ResolveUnderWay(self) ==
    pc[self] \in {"r_updatePoll", "r_payWinner", "r_repWinner", "r_markLoser",
                  "r_repLoser", "r_notify"}
\* the call went past the resolvedAt guard of line 239
PastGuard(self) ==
    IsResolve(self) /\ (ResolveUnderWay(self) \/ (pc[self] = "done" /\ result[self] = "ok"))

\* C1: of the concurrent resolvePoll calls on one poll, at most one goes past the
\* resolvedAt guard (and writes); the others end with 'Poll already resolved'.
C1_OneCallPastTheGuard ==
    \A p \in DOMAIN poll :
        Cardinality({self \in DOMAIN pc : PastGuard(self) /\ args[self].pollId = p}) <= 1

C3_NoPartialResolution ==
    \A self \in DOMAIN pc :
        ResolveUnderWay(self) =>
            LET ids == {r.id : r \in local[self].predictions}
                stored == {r \in preds : r.id \in ids}
            IN  ~ (/\ poll[args[self].pollId].resolvedAt # Null
                   /\ \E r1, r2 \in stored : r1.isResolved /\ ~ r2.isResolved)

\* C4: handlers run one after the other.  The store never holds two predictions of
\* one (userId, pollId), and when createPrediction has written, the one prediction
\* of its (userId, pollId) carries the optionId, confidence and points it was given.
C4_OnePredictionPerUserPoll ==
    /\ \A r1, r2 \in preds :
          (r1.userId = r2.userId /\ r1.pollId = r2.pollId) => r1 = r2
    /\ \A self \in DOMAIN pc :
          pc[self] = "c_post" =>
              \E r \in preds :
                  /\ r.userId = args[self].userId /\ r.pollId = args[self].pollId
                  /\ r.optionId = args[self].optionId
                  /\ r.confidence = args[self].confidence
                  /\ r.points = args[self].points

\* a second submission of a user has replaced the first
C4_Witness ==
    \E self \in DOMAIN pc :
        /\ pc[self] = "c_post"
        /\ local[self].existingPrediction # Null
        /\ Cardinality({r \in preds : r.userId = args[self].userId}) = 1

\* C5: with concurrent submissions of one user on one poll, the store never holds
\* two predictions of that (userId, pollId), and the later write wins: the write
\* step of a submission leaves its values in the store.
C5_LaterWriteWins ==
    [][\A self \in DOMAIN pc :
          (pc[self] = "c_write" /\ pc'[self] # "c_write") =>
              /\ \A r1, r2 \in preds' :
                    (r1.userId = r2.userId /\ r1.pollId = r2.pollId) => r1 = r2
              /\ \E r \in preds' :
                    /\ r.userId = args[self].userId /\ r.pollId = args[self].pollId
                    /\ r.optionId = args[self].optionId
                    /\ r.confidence = args[self].confidence
                    /\ r.points = args[self].points]_vars

\* what the users submitted on poll p
Submissions(p) == {<<r.id, r.userId, r.optionId, r.confidence, r.points>> : r \in On(p)}

\* C6: once a poll's resolvedAt is set, no prediction on it is created or modified.
C6_NoPredictionAfterResolution ==
    [][\A p \in DOMAIN poll :
          poll[p].resolvedAt # Null => Submissions(p)' = Submissions(p)]_vars

\* C7: after a successful resolvePoll, every prediction of the poll on another
\* option than the winning one has payout 0, isResolved and resolvedAt set.
C7_LosersResolved ==
    \A self \in DOMAIN pc :
        (IsResolve(self) /\ pc[self] = "done" /\ result[self] = "ok") =>
            \A r \in On(args[self].pollId) :
                r.optionId # Val(poll[args[self].pollId].resolutionResult) =>
                    r.payout = Some(0) /\ r.isResolved /\ r.resolvedAt # Null

Winners(p) == {r \in On(p) : r.optionId = Val(poll[p].resolutionResult)}
Payouts(S) == SumOver([x \in S |-> Val(x.payout)], S)

\* C8: handlers run one after the other.  Every resolved prediction on the winning
\* option of a resolved poll has payout = floor((points / winningPool) * totalPool
\* * (1 - HOUSE_EDGE) * (1 + confidence * 0.1)), totalPool being the stakes of the
\* poll's predictions and winningPool those on the winning option.
C8_WinnerPayout ==
    \A p \in DOMAIN poll :
        poll[p].resolvedAt # Null =>
            \A r \in Winners(p) :
                r.isResolved =>
                    LET totalPool == Points(On(p))
                        winningPool == Points(Winners(p))
                        num == r.points * totalPool * (100 - HOUSE_EDGE_PCT)
                                   * (10 * ConfDen + r.confidence)
                        den == winningPool * 100 * 10 * ConfDen
                    IN  /\ r.payout # Null
                        /\ Val(r.payout) * den <= num
                        /\ num < (Val(r.payout) + 1) * den

\* the sole winner with stake 100 and confidence 0.9 in a pool of 150 was paid 155
C8_Witness ==
    /\ ConfDen = 10
    /\ \E p \in DOMAIN poll :
          /\ poll[p].resolvedAt # Null
          /\ Points(On(p)) = 150
          /\ \E r \in Winners(p) :
                /\ Winners(p) = {r}
                /\ r.points = 100 /\ r.confidence = 9 /\ r.payout = Some(155)

C10_NoWinnersNoPayout ==
    \A p \in DOMAIN poll :
        (poll[p].resolvedAt # Null /\ Winners(p) = {}) =>
            /\ \A r \in On(p) : r.payout = Null \/ r.payout = Some(0)
            /\ \A u \in Users : reputation[u] <= DefaultReputation

\* a resolvePoll call has ended on a poll whose predictions all chose another option
C10_Witness ==
    \E self \in DOMAIN pc :
        /\ IsResolve(self) /\ pc[self] = "done" /\ result[self] = "ok"
        /\ On(args[self].pollId) # {}
        /\ Winners(args[self].pollId) = {}

\* C11: on resolution each winner's reputation grows by exactly
\* floor(payout * 0.1 * (1 + confidence)) and each loser's reputation drops by
\* exactly floor(stake * 0.1 * 0.1), which is 0 for a stake of 50.
C11_ReputationDeltas ==
    [][\A self \in DOMAIN pc :
          /\ (pc[self] = "r_repWinner" /\ pc'[self] # "r_repWinner") =>
                LET prediction == Val(local[self].cur)
                    gain == reputation'[prediction.userId] - reputation[prediction.userId]
                    num == Val(prediction.payout) * (ConfDen + prediction.confidence)
                IN  gain * 10 * ConfDen <= num /\ num < (gain + 1) * 10 * ConfDen
          /\ (pc[self] = "r_repLoser" /\ pc'[self] # "r_repLoser") =>
                LET prediction == Val(local[self].cur)
                    loss == reputation[prediction.userId] - reputation'[prediction.userId]
                IN  loss * 100 <= prediction.points /\ prediction.points < (loss + 1) * 100]_vars

\* the unresolved predictions of poll p
Unresolved(p) == {r \in On(p) : ~ r.isResolved}
\* a getMarketOdds call has returned its list
OddsReturned(self) ==
    args[self].op = "getMarketOdds" /\ pc[self] = "done" /\ result[self] = "ok"
\* the probabilities getMarketOdds(p) returns in this state, by option
Probabilities(p) == [o \in Options(p) |-> MarketOdds(p)[o].probability]

\* C12: for every poll with at least one unresolved prediction, the probabilities
\* getMarketOdds returns sum to 1 - HOUSE_EDGE (0.95) over the poll's options.
C12_ProbabilitiesSum ==
    \A p \in DOMAIN poll :
        Unresolved(p) # {} =>
            RSum(Probabilities(p), Options(p)) = Frac(100 - HOUSE_EDGE_PCT, 100)

\* C13: for a poll with no unresolved prediction, getMarketOdds divides by no zero
\* and returns, for every option, probability 0 and the impliedOdds of
\* probability 0 (the infinity sentinel).
C13_EmptyMarketOdds ==
    \A self \in DOMAIN pc :
        (OddsReturned(self) /\ Unresolved(args[self].pollId) = {}) =>
            \A i \in DOMAIN local[self].marketOdds :
                /\ local[self].marketOdds[i].probability = Zero
                /\ local[self].marketOdds[i].impliedOdds = formatOdds(Zero)

\* C14: once a poll's resolvedAt is set its odds are frozen: no later step, the
\* remaining steps of resolvePoll included, changes the probabilities
\* getMarketOdds returns for it.
C14_OddsFrozen ==
    [][\A p \in DOMAIN poll :
          poll[p].resolvedAt # Null =>
              \A o \in Options(p) :
                  ComputeOdds(Options(p), preds')[o].probability = Probabilities(p)[o]]_vars

\* C15: a createPrediction call whose confidence is outside [0,1] or whose points
\* are outside [MIN_PREDICTION, MAX_PREDICTION] ends at once with a validation
\* error, and no table is read or written.
C15_InvalidInputRejected ==
    [][\A self \in DOMAIN pc :
          (/\ pc[self] \in {"idle", "p_findUser"} /\ pc'[self] # pc[self]
           /\ args'[self].op = "createPrediction" /\ "points" \in DOMAIN args'[self]
           /\ \/ args'[self].confidence < 0 \/ args'[self].confidence > ConfDen
              \/ args'[self].points < MIN_PREDICTION
              \/ args'[self].points > MAX_PREDICTION)
          => /\ pc'[self] = "done"
             /\ result'[self] \in {"Confidence must be between 0 and 1",
                                   "Points must be between"}
             /\ db' = db]_vars

\* a call with points above MAX_PREDICTION was turned away on a store that holds
\* a prediction
C15_Witness ==
    \E self \in DOMAIN pc :
        /\ pc[self] = "done" /\ args[self].op = "createPrediction"
        /\ "points" \in DOMAIN args[self]
        /\ args[self].points > MAX_PREDICTION
        /\ result[self] = "Points must be between"
        /\ preds # {}

C17_OptionOfThePoll ==
    \A r \in preds : r.optionId \in Options(r.pollId)

\* C18: no prediction is stored whose points exceed the reputation of its user,
\* whichever caller hands it to the engine: when createPrediction has written,
\* the points are within the user's reputation.
C18_StakeWithinBalance ==
    \A self \in DOMAIN pc :
        (args[self].op = "createPrediction" /\ pc[self] = "c_post") =>
            args[self].points <= reputation[args[self].userId]

\* C19: a resolvePoll call on a poll that does not exist ends with 'Poll not
\* found', one on a poll whose resolvedAt is set ends with 'Poll already
\* resolved', and neither has written: every table is as it was before the call.
C19_FailedResolveWritesNothing ==
    [][\A self \in DOMAIN pc :
          /\ (pc[self] = "idle" /\ pc'[self] = "r_find") => db' = db
          /\ (pc[self] = "r_find" /\ pc'[self] # "r_find") =>
                IF args[self].pollId \notin DOMAIN poll
                THEN pc'[self] = "done" /\ result'[self] = "Poll not found" /\ db' = db
                ELSE IF poll[args[self].pollId].resolvedAt # Null
                THEN /\ pc'[self] = "done" /\ result'[self] = "Poll already resolved"
                     /\ db' = db
                ELSE result'[self] = "none"]_vars

\* a resolvePoll call named no poll, on a store with a resolved prediction
C19_Witness ==
    \E self \in DOMAIN pc :
        /\ IsResolve(self) /\ pc[self] = "done" /\ result[self] = "Poll not found"
        /\ \E r \in preds : r.isResolved

\* C20: handlers run one after the other.  When a resolvePoll(pollId,
\* winningOptionId, resolutionSource) call ends with success, the poll has
\* resolvedAt set, resolutionResult = winningOptionId, resolutionSource as given
\* and isActive false.
C20_ResolvedPollFields ==
    [][\A self \in DOMAIN pc :
          (/\ IsResolve(self) /\ pc[self] # "done"
           /\ pc'[self] = "done" /\ result'[self] = "ok")
          => LET row == poll'[args[self].pollId] IN
             /\ row.resolvedAt # Null
             /\ row.resolutionResult = Some(args[self].winningOptionId)
             /\ row.resolutionSource = Some(args[self].resolutionSource)
             /\ ~ row.isActive]_vars

\* a resolvePoll call with the source 'admin' has ended with success and paid a
\* prediction
C20_Witness ==
    \E self \in DOMAIN pc :
        /\ IsResolve(self) /\ pc[self] = "done" /\ result[self] = "ok"
        /\ poll[args[self].pollId].resolutionSource = Some("admin")
        /\ \E r \in On(args[self].pollId) : r.payout # Null /\ Val(r.payout) > 0

\* C21: handlers run one after the other.  Once a poll is resolved (resolvedAt
\* set, isActive false), no step of createPrediction, resolvePoll, getMarketOdds,
\* getMarketAnalytics or getLeaderboard makes it active, clears resolvedAt or
\* changes resolutionResult.
C21_ResolvedStaysResolved ==
    [][\A p \in DOMAIN poll :
          (poll[p].resolvedAt # Null /\ ~ poll[p].isActive) =>
              /\ poll'[p].resolvedAt # Null
              /\ ~ poll'[p].isActive
              /\ poll'[p].resolutionResult = poll[p].resolutionResult]_vars

\* a createPrediction call was turned away on a resolved poll, which is still
\* resolved
C21_Witness ==
    \E self \in DOMAIN pc :
        /\ args[self].op = "createPrediction" /\ pc[self] = "done"
        /\ result[self] = "Poll is not active"
        /\ args[self].pollId \in DOMAIN poll
        /\ poll[args[self].pollId].resolvedAt # Null
        /\ ~ poll[args[self].pollId].isActive

\* C22: the list getLeaderboard(timeframe, limit) returns has at most limit
\* entries, is sorted by descending netProfit, and no user with predictions that
\* it omits has a higher netProfit than a user it includes.
C22_LeaderboardTopUsers ==
    \A self \in DOMAIN pc :
        (args[self].op = "getLeaderboard" /\ pc[self] = "done") =>
            LET leaderboard == local[self].leaderboard
                included == {leaderboard[i].userId : i \in DOMAIN leaderboard}
            IN  /\ Len(leaderboard) <= args[self].limit
                /\ \A i, j \in DOMAIN leaderboard :
                      i < j => leaderboard[i].netProfit >= leaderboard[j].netProfit
                /\ \A u \in UsersWithPredictions \ included :
                      \A i \in DOMAIN leaderboard :
                          LeaderboardEntry(u).netProfit <= leaderboard[i].netProfit

\* C23: for a poll with no unresolved prediction getMarketAnalytics returns, and
\* totalVolume, uniquePredictors, averageConfidence, consensusProbability,
\* marketEfficiency and liquidityIndex are all 0.
C23_EmptyMarketAnalytics ==
    \A self \in DOMAIN pc :
        (/\ args[self].op = "getMarketAnalytics" /\ pc[self] = "done"
         /\ Unresolved(args[self].pollId) = {})
        => /\ result[self] = "ok"
           /\ local[self].analytics.totalVolume = 0
           /\ local[self].analytics.uniquePredictors = 0
           /\ local[self].analytics.averageConfidence = Zero
           /\ local[self].analytics.consensusProbability = Zero
           /\ local[self].analytics.marketEfficiency = Zero
           /\ local[self].analytics.liquidityIndex = Zero

\* the resolved predictions of user u whose reputation change has been applied
Applied(u) ==
    {r \in preds :
        /\ r.userId = u /\ r.isResolved
        /\ ~ \E self \in DOMAIN pc :
               /\ pc[self] \in {"r_repWinner", "r_repLoser"}
               /\ Val(local[self].cur).id = r.id}
\* the reputation change of a resolved prediction
Delta(r) ==
    IF r.optionId = Val(poll[r.pollId].resolutionResult)
    THEN ReputationChange(Val(r.payout), 1, r.confidence)
    ELSE ReputationChange(- r.points, 10, 0)

\* C24: reputation changes are deltas: while the resolutions of two polls that
\* both affect a user interleave in any order, and when both have ended, the
\* user's reputation is the initial reputation plus the sum of the changes
\* applied so far (no change is lost).
C24_NoLostUpdate ==
    \A u \in Users :
        reputation[u] = RepReputation[u] + SumOver([r \in Applied(u) |-> Delta(r)], Applied(u))

\* both resolutions are under way and u1 has had a change from each of them
C24_Witness ==
    /\ \A self \in DOMAIN pc : IsResolve(self) /\ ResolveUnderWay(self)
    /\ \E r1, r2 \in Applied("u1") :
          r1.pollId # r2.pollId /\ Delta(r1) # 0 /\ Delta(r2) # 0

\* x >= y; false when either is NaN
RGeq(x, y) == x # NaN /\ y # NaN /\ ~ RLess(x, y)

\* C25: the list getMarketOdds returns is in descending order of probability:
\* of every two adjacent entries the earlier has a probability greater than or
\* equal to that of the later.
C25_OddsDescending ==
    \A self \in DOMAIN pc :
        OddsReturned(self) =>
            \A i \in DOMAIN local[self].marketOdds :
                i + 1 \in DOMAIN local[self].marketOdds =>
                    RGeq(local[self].marketOdds[i].probability,
                         local[self].marketOdds[i + 1].probability)

\* C26: at most one vote is stored per (poll, user) and per (poll, session), and
\* the same voter never has two votes on the same poll, a voter whose connection
\* carries neither a userId nor a sessionId included.
C26_OneVotePerVoter ==
    \A v, w \in votes :
        (v.pollId = w.pollId /\ v.ipAddress = w.ipAddress) => v = w

\* C27: in every state, concurrent resolvePoll calls and racing createPrediction
\* updates included, every prediction with payout > 0 belongs to a poll whose
\* resolvedAt is set and has the optionId that is the poll's resolutionResult.
C27_PaidPredictionsWon ==
    \A r \in preds :
        (r.payout # Null /\ Val(r.payout) > 0) =>
            /\ poll[r.pollId].resolvedAt # Null
            /\ poll[r.pollId].resolutionResult = Some(r.optionId)

\* C28: a poll's resolutionResult, once set, is the id of one of that poll's own
\* options: resolvePoll with a winningOptionId that is not an option of the poll
\* does not resolve the poll.
C28_ResultIsAnOptionOfThePoll ==
    \A p \in DOMAIN poll :
        poll[p].resolutionResult # Null => Val(poll[p].resolutionResult) \in Options(p)

\* C29: a user's reputation never becomes negative: from non-negative
\* reputations, after any sequence of accepted predictions and poll resolutions,
\* every user's reputation is >= 0.
C29_ReputationNotNegative == \A u \in Users : reputation[u] >= 0

\* C30: handlers run one after the other.  A prediction submission that ends in
\* an error has stored nothing: when a submission that found no prediction of
\* its (userId, pollId) ends with anything but 'ok', the store holds no
\* prediction of that (userId, pollId).
C30_FailedSubmissionStoresNothing ==
    [][\A self \in DOMAIN pc :
          (/\ pc[self] \notin {"idle", "done"} /\ pc'[self] = "done"
           /\ result'[self] # "ok"
           /\ local[self].op = "createPrediction"
           /\ local[self].existingPrediction = Null)
              => ~ \E r \in preds' :
                      r.userId = args[self].userId /\ r.pollId = args[self].pollId]_vars

====
